---- MODULE Spec2Model ----
(***************************************************************************)
(* Surreal Phoenicians (src/surreal_phoenicians.py): the SurrealNumber     *)
(* price type, the pricing function get_price, the negotiation resolver    *)
(* (NegotiationCut, negotiate_price), the supply scheduler                 *)
(* (check_supply_refresh, refresh_city_supplies) and the handlers of the   *)
(* game loop (buy_goods, sell_goods, travel, buy_house).                   *)
(*                                                                         *)
(* Python floats are modelled as fixed-point decimals: an integer n stands *)
(* for n / Scale.  Sums and differences are exact; products and quotients  *)
(* are rounded to the nearest unit, as a float operation rounds to the     *)
(* nearest representable value.                                            *)
(***************************************************************************)
EXTENDS Integers, Sequences, FiniteSets, TLC

\* ------------------------------------------------------------------ bounds

\* travel() is enabled while the arrival day does not exceed MaxDay.
MaxDay == 24
\* A purchase succeeds while total_trades < MaxTrades, a sale while
\* total_trades <= MaxTrades: every purchase within the bound can be sold again.
MaxTrades == 1
\* Seeds of the random stream behind random.randint in a refresh.
MaxSeed == 0
\* A travel meets a random event while events_encountered < MaxEvents.
MaxEvents == 1
\* add_offer is enabled while the list it appends to holds fewer than MaxOffers.
MaxOffers == 2

\* ------------------------------------------------------- fixed-point floats

\* Units per 1.0.
Scale == 1000

\* The float n / d.
Dec(n, d) == (n * Scale) \div d

Max(x, y) == IF x >= y THEN x ELSE y
Min(x, y) == IF x <= y THEN x ELSE y
Abs(x) == IF x >= 0 THEN x ELSE -x

\* x * k for floats x, k: x * k / Scale rounded to nearest, computed without
\* leaving 32 bits ((x * k) \div Scale = x * (k \div Scale) + (x * (k % Scale)) \div Scale).
MulF(x, k) == x * (k \div Scale) + (x * (k % Scale) + Scale \div 2) \div Scale

\* x / y for floats x, y with y > 0, rounded to nearest.
DivF(x, y) == (x * Scale + y \div 2) \div y

\* ----------------------------------------------------------- Python values

\* Optional[T]: None, or a value.
None == <<>>
Some(x) == <<x>>
IsNone(o) == o = <<>>
Val(o) == o[1]

\* dict.get(k, default), d[k] = v, del d[k]
Get(d, k, default) == IF k \in DOMAIN d THEN d[k] ELSE default
Put(d, k, v) == [x \in DOMAIN d \cup {k} |-> IF x = k THEN v ELSE d[x]]
Del(d, k) == [x \in DOMAIN d \ {k} |-> d[x]]
EmptyDict == [x \in {} |-> 0]

\* ----------------------------------------------------------- SurrealNumber

\* a + b*eps + c*omega; arguments in fixed-point units.
SurrealNumber(a, b, c) == [a |-> a, b |-> b, c |-> c]

\* SurrealNumber(float(a), float(b), float(c)) for integer literals.
Surreal(a, b, c) == SurrealNumber(a * Scale, b * Scale, c * Scale)

\* Sub taking its operand for a plain number: only the real axis is subtracted.
Sub_real_axis_only(x, y) == [a |-> x.a - y.a, b |-> x.b, c |-> x.c]

\* __add__ / __sub__ with a SurrealNumber operand
Add(x, y) == SurrealNumber(x.a + y.a, x.b + y.b, x.c + y.c)
Sub(x, y) == SurrealNumber(x.a - y.a, x.b - y.b, x.c - y.c)
\* __sub__ with an int or float operand: only the real axis
SubReal(x, r) == SurrealNumber(x.a - r, x.b, x.c)

\* __mul__ by a float scalar (fixed-point k) and by an int scalar n
Mul(x, k) == SurrealNumber(MulF(x.a, k), MulF(x.b, k), MulF(x.c, k))
MulInt(x, n) == SurrealNumber(x.a * n, x.b * n, x.c * n)

\* __lt__: lexicographic, omega then a then eps
Lt(x, y) ==
    IF x.c # y.c THEN x.c < y.c
    ELSE IF x.a # y.a THEN x.a < y.a
    ELSE x.b < y.b

\* __eq__: each axis within 1e-10, which is below one fixed-point unit
Eq(x, y) == Abs(x.a - y.a) < 1 /\ Abs(x.b - y.b) < 1 /\ Abs(x.c - y.c) < 1

Le(x, y) == Lt(x, y) \/ Eq(x, y)
Gt(x, y) == ~Le(x, y)
Ge(x, y) == ~Lt(x, y)

\* The comparisons on components counted in units of 1e-11, fine enough for the
\* tolerance of __eq__ to show: 1e-10 is Tolerance of these units.
Tolerance == 10

\* __eq__ on components in units of 1e-11
EqFine(x, y) ==
    /\ Abs(x.a - y.a) < Tolerance
    /\ Abs(x.b - y.b) < Tolerance
    /\ Abs(x.c - y.c) < Tolerance

\* __le__ and __gt__ on components in units of 1e-11 (__lt__ and __ge__ do not
\* depend on the unit)
LeFine(x, y) == Lt(x, y) \/ EqFine(x, y)
GtFine(x, y) == ~LeFine(x, y)

is_legal(x) == x.c <= 0

clear_omega(x) == SurrealNumber(x.a, x.b, 0)

\* max(list) / min(list) of a non-empty list under __lt__ / __gt__: Python keeps
\* the first element no later one beats.
RECURSIVE MaxOf(_)
MaxOf(s) ==
    IF Len(s) = 1 THEN s[1]
    ELSE LET m == MaxOf(SubSeq(s, 1, Len(s) - 1))
         IN  IF Gt(s[Len(s)], m) THEN s[Len(s)] ELSE m

RECURSIVE MinOf(_)
MinOf(s) ==
    IF Len(s) = 1 THEN s[1]
    ELSE LET m == MinOf(SubSeq(s, 1, Len(s) - 1))
         IN  IF Lt(s[Len(s)], m) THEN s[Len(s)] ELSE m

\* ------------------------------------------------------------------- world

\* _create_goods: id -> (base_a, base_b, monopoly)
Good(base_a, base_b, monopoly) ==
    [base_a |-> base_a * Scale, base_b |-> base_b * Scale, monopoly |-> monopoly]

goods ==
    [purple_dye |-> Good(220, -3, TRUE),
     glass      |-> Good(120, 0, FALSE),
     olive_oil  |-> Good(40, -1, FALSE),
     cedar      |-> Good(90, -1, FALSE),
     wine       |-> Good(36, 0, FALSE),
     salt       |-> Good(18, 1, FALSE),
     tin        |-> Good(130, 1, FALSE),
     silver     |-> Good(240, 2, FALSE)]

GoodIds == DOMAIN goods

CityModifier(a_mod, b_mod, c_mod) ==
    [a_mod |-> a_mod * Scale, b_mod |-> b_mod * Scale, c_mod |-> c_mod * Scale]

\* _create_cities: city.modifiers
modifiers ==
    [carthage |-> [glass     |-> CityModifier(-8, -1, 0),
                   olive_oil |-> CityModifier(4, 0, 0),
                   wine      |-> CityModifier(2, 0, 0)],
     tyre     |-> [purple_dye |-> CityModifier(-40, -2, 0),
                   glass      |-> CityModifier(-20, -1, 0),
                   cedar      |-> CityModifier(-30, -1, 0)],
     gadir    |-> [purple_dye |-> CityModifier(0, 0, 1),
                   silver     |-> CityModifier(-30, 1, 0),
                   tin        |-> CityModifier(-20, 0, 0)]]

CityIds == DOMAIN modifiers

\* _create_cities: base_stock_levels (city.stock starts equal to it)
base_stock_levels ==
    [carthage |-> [glass |-> 18, olive_oil |-> 25, wine |-> 12, salt |-> 30],
     tyre     |-> [purple_dye |-> 5, glass |-> 15, cedar |-> 8],
     gadir    |-> [silver |-> 6, tin |-> 12, salt |-> 20]]

\* The (city, good) pairs in the order refresh_city_supplies visits them.
RefreshOrder ==
    << <<"carthage", "glass">>, <<"carthage", "olive_oil">>, <<"carthage", "wine">>,
       <<"carthage", "salt">>, <<"tyre", "purple_dye">>, <<"tyre", "glass">>,
       <<"tyre", "cedar">>, <<"gadir", "silver">>, <<"gadir", "tin">>,
       <<"gadir", "salt">> >>

Route(from_city, to_city, min_days, max_days) ==
    [from_city |-> from_city, to_city |-> to_city,
     min_days |-> min_days, max_days |-> max_days]

\* _create_routes
routes ==
    << Route("carthage", "gadir", 7, 10),
       Route("carthage", "tyre", 12, 16),
       Route("tyre", "gadir", 18, 28),
       Route("gadir", "carthage", 8, 11),
       Route("tyre", "carthage", 11, 15),
       Route("gadir", "tyre", 20, 30) >>

\* applies_to looking the city up among the goods and the good among the cities.
applies_to_swapped(charter, city, good) ==
    city \in charter.goods /\ good \in charter.cities

\* Ship.cargo_capacity
cargo_capacity == 50

\* sum(dict.values()) of a dict of quantities
RECURSIVE SumValues(_)
SumValues(d) ==
    IF DOMAIN d = {} THEN 0
    ELSE LET k == CHOOSE x \in DOMAIN d : TRUE
         IN  d[k] + SumValues([x \in DOMAIN d \ {k} |-> d[x]])

\* Charter.applies_to
applies_to(charter, city, good) == city \in charter.cities /\ good \in charter.goods

\* ------------------------------------------------------------------- state

VARIABLES
    current_city,             \* GameState.current_city
    day,                      \* GameState.day
    money,                    \* GameState.money
    cargo,                    \* GameState.cargo: dict good -> quantity
    charters,                 \* GameState.charters: list of Charter
    reputation,               \* GameState.reputation["merchant_guild"]
    game_completed,           \* GameState.game_completed
    owns_house,               \* GameState.owns_house
    last_supply_refresh_day,  \* GameState.last_supply_refresh_day
    stats,                    \* GameState.stats
    stock,                    \* city id -> City.stock (dict good -> quantity)
    crew_morale,              \* GameState.ship.crew_morale
    L,                        \* NegotiationCut.L: the seller-leaning offers
    R,                        \* NegotiationCut.R: the buyer-leaning offers
    lhs,                      \* self of the last SurrealNumber comparison
    rhs                       \* other of the last SurrealNumber comparison

\* The fields of GameState, and those of a NegotiationCut
gameVars == <<current_city, day, money, cargo, charters, reputation, game_completed,
              owns_house, last_supply_refresh_day, stats, stock, crew_morale>>
cutVars == <<L, R>>
cmpVars == <<lhs, rhs>>
vars == <<gameVars, cutVars, cmpVars>>

\* ----------------------------------------------------------- NegotiationCut

\* NegotiationCut.find_simplest_in_gap on a cut whose offer lists are cut_L and cut_R
find_simplest_in_gap(cut_L, cut_R) ==
    IF Len(cut_L) = 0 \/ Len(cut_R) = 0 THEN None
    ELSE LET max_L == MaxOf(cut_L)
             min_R == MinOf(cut_R)
         IN  IF Ge(max_L, min_R) THEN None
             ELSE LET mid_a == (max_L.a + min_R.a) \div 2
                      mid_b == 0
                      mid_c == Max(max_L.c, min_R.c)
                  IN  Some(SurrealNumber(mid_a, mid_b, mid_c))

\* ------------------------------------------------------------------ pricing

\* is_specialty finding no city a producer.
is_specialty_never(city_id, good_id) == FALSE

\* is_specialty, as get_price and refresh_city_supplies both compute it
is_specialty(city_id, good_id) ==
    good_id \in DOMAIN modifiers[city_id] /\ modifiers[city_id][good_id].a_mod < 0

\* base_price_of reading no good as a monopoly.
base_price_of_without_monopoly(good_id, city_id) ==
    LET good == goods[good_id]
        p0   == SurrealNumber(good.base_a, good.base_b, 0)
        p1   == IF good_id \in DOMAIN modifiers[city_id]
                THEN LET mod == modifiers[city_id][good_id]
                     IN  SurrealNumber(p0.a + mod.a_mod, p0.b + mod.b_mod, 0)
                ELSE p0
    IN  IF \E i \in 1..Len(charters) : applies_to(charters[i], city_id, good_id)
        THEN SurrealNumber(p1.a, p1.b, 0)
        ELSE p1

\* get_price up to the charter loop: the base price, the city modifier, the charters
base_price_of(good_id, city_id) ==
    LET good == goods[good_id]
        p0   == SurrealNumber(good.base_a, good.base_b,
                              IF good.monopoly THEN 1 * Scale ELSE 0)
        p1   == IF good_id \in DOMAIN modifiers[city_id]
                THEN LET mod == modifiers[city_id][good_id]
                     IN  SurrealNumber(p0.a + mod.a_mod, p0.b + mod.b_mod,
                                       IF good.monopoly THEN mod.c_mod ELSE 0)
                ELSE p0
    IN  IF \E i \in 1..Len(charters) : applies_to(charters[i], city_id, good_id)
        THEN SurrealNumber(p1.a, p1.b, 0)
        ELSE p1

\* rep_bonus ignoring the score.
rep_bonus_flat(merchant_guild) == -Dec(15, 100)

\* get_price: rep_bonus, from the merchant_guild reputation
rep_bonus_of(merchant_guild) == merchant_guild * (-Dec(15, 100))

\* The selling multiplier with the spread paid to the seller, not taken from him.
sell_spread_multiplier_at_premium(base_spread, specialty_bonus, stock_factor, inventory_pressure) ==
    LET sm0 == Dec(1, 1) + base_spread + specialty_bonus
        sm1 == sm0 - MulF(stock_factor - Dec(1, 1), Dec(5, 100))
        sm2 == DivF(sm1, inventory_pressure)
    IN  Max(Dec(7, 10), sm2)

\* get_price, selling: the factor applied to price.a, floor of 0.7 included
sell_spread_multiplier(base_spread, specialty_bonus, stock_factor, inventory_pressure) ==
    LET sm0 == Dec(1, 1) - base_spread - specialty_bonus
        sm1 == sm0 - MulF(stock_factor - Dec(1, 1), Dec(5, 100))
        sm2 == DivF(sm1, inventory_pressure)
    IN  Max(Dec(7, 10), sm2)

\* GameState.get_price when self.reputation["merchant_guild"] is merchant_guild
get_price_with(good_id, city_id, is_buying, merchant_guild) ==
    LET price == base_price_of(good_id, city_id)
        stk == Get(stock[city_id], good_id, 0)
        player_cargo == Get(cargo, good_id, 0)
        base_spread == Dec(15, 100)
        stock_factor == Max(Dec(5, 10), Min(Dec(2, 1), DivF(stk * Scale, 10 * Scale)))
        inventory_pressure == Dec(1, 1) + player_cargo * Dec(2, 100)
        specialty == is_specialty(city_id, good_id)
        specialty_bonus == IF specialty THEN Dec(5, 100) ELSE 0
        rep_bonus == rep_bonus_of(merchant_guild)
    IN  IF is_buying
        THEN LET spread_multiplier ==
                     Dec(1, 1) + base_spread
                     + MulF(DivF(Dec(1, 1), stock_factor) - Dec(1, 1), Dec(1, 10))
                 a1 == MulF(price.a, spread_multiplier)
             IN  IF specialty
                 THEN SurrealNumber(MulF(a1, Dec(102, 100)),
                                    price.b + Dec(5, 10) + rep_bonus, price.c)
                 ELSE SurrealNumber(a1, price.b + rep_bonus, price.c)
        ELSE LET a1 == MulF(price.a,
                            sell_spread_multiplier(base_spread, specialty_bonus,
                                                   stock_factor, inventory_pressure))
             IN  IF specialty
                 THEN SurrealNumber(a1, price.b - Dec(3, 10) + rep_bonus, price.c)
                 ELSE SurrealNumber(a1, price.b + rep_bonus, price.c)

\* GameState.get_price
get_price(good_id, city_id, is_buying) ==
    get_price_with(good_id, city_id, is_buying, reputation)

\* can_afford without the comparison against the cash.
can_afford_any_legal(price) == is_legal(price)

\* GameState.can_afford
can_afford(price) ==
    IF ~is_legal(price) THEN FALSE ELSE Ge(money, price)

\* opening_offers filing each offer on the other side of the cut.
opening_offers_swapped(base_price, is_buying) ==
    IF is_buying
    THEN << <<Mul(base_price, Dec(85, 100))>>, <<Mul(base_price, Dec(105, 100))>> >>
    ELSE << <<Mul(base_price, Dec(95, 100))>>, <<Mul(base_price, Dec(115, 100))>> >>

\* The offers negotiate_price files into the cut: <<L, R>>
opening_offers(base_price, is_buying) ==
    IF is_buying
    THEN << <<Mul(base_price, Dec(105, 100))>>, <<Mul(base_price, Dec(85, 100))>> >>
    ELSE << <<Mul(base_price, Dec(115, 100))>>, <<Mul(base_price, Dec(95, 100))>> >>

\* resolve without the legality check.
resolve_without_permit_check(base_price, quantity, is_buying) ==
    LET cut == opening_offers(base_price, is_buying)
        gap == find_simplest_in_gap(cut[1], cut[2])
        final_price == IF IsNone(gap) THEN base_price ELSE Val(gap)
    IN  Some(MulInt(final_price, quantity))

\* resolve failing the transaction when the cut has no gap.
resolve_failing_without_gap(base_price, quantity, is_buying) ==
    IF ~is_legal(base_price) THEN None
    ELSE LET cut == opening_offers(base_price, is_buying)
             gap == find_simplest_in_gap(cut[1], cut[2])
         IN  IF IsNone(gap) THEN None ELSE Some(MulInt(Val(gap), quantity))

\* negotiate_price from the quote on: the legality check, the cut, the fallback
resolve(base_price, quantity, is_buying) ==
    IF ~is_legal(base_price) THEN None
    ELSE LET cut == opening_offers(base_price, is_buying)
             gap == find_simplest_in_gap(cut[1], cut[2])
             final_price == IF IsNone(gap) THEN base_price ELSE Val(gap)
         IN  Some(MulInt(final_price, quantity))

\* GameState.negotiate_price
negotiate_price(good_id, city_id, quantity, is_buying) ==
    resolve(get_price(good_id, city_id, is_buying), quantity, is_buying)

\* A house test that reads the real component of the cash alone.
can_afford_house_real_only ==
    money.a >= Surreal(10000, 0, 0).a /\ ~owns_house

\* GameState.can_afford_house
can_afford_house ==
    Ge(money, Surreal(10000, 0, 0)) /\ ~owns_house

\* ---------------------------------------------------------- supply scheduler

\* random.randint(lo, hi) on the raw draw r
randint(lo, hi, r) == lo + (r % (hi - lo + 1))

\* The k-th raw draw of the random stream started at seed.
Rand(seed, k) == seed + k

\* The position of each (city, good) in RefreshOrder
PairIndexTable ==
    [c \in CityIds |->
        [g \in DOMAIN base_stock_levels[c] |->
            CHOOSE k \in 1..Len(RefreshOrder) : RefreshOrder[k] = <<c, g>>]]

PairIndex(city_id, good_id) == PairIndexTable[city_id][good_id]

\* The k-th raw draws of the streams from DrawSeeds give every value of
\* randint(2, 8) and of randint(-2, 4) (7 values each).
DrawPeriod == 7
DrawSeeds == 0..(DrawPeriod - 1)

\* new_stock_of restocking every good as a regular one.
new_stock_of_regular(city_id, good_id, r) ==
    Max(1, base_stock_levels[city_id][good_id] + randint(-2, 4, r))

\* The stock refresh_city_supplies computes for one (city, good) before it takes
\* the larger of it and the current stock
new_stock_of(city_id, good_id, r) ==
    LET base_amount == base_stock_levels[city_id][good_id]
    IN  IF is_specialty(city_id, good_id)
        THEN base_amount + randint(2, 8, r)
        ELSE Max(1, base_amount + randint(-2, 4, r))

\* restock overwriting the stock with the new level.
restock_overwriting(city_id, good_id, current_stock, r) ==
    new_stock_of(city_id, good_id, r)

\* The stock refresh_city_supplies assigns to one (city, good) of the base-stock table
restock(city_id, good_id, current_stock, r) ==
    Max(current_stock, new_stock_of(city_id, good_id, r))

\* GameState.refresh_city_supplies on the stock table stk and the refresh counter n,
\* its draws being those of the stream from index first on
refresh_city_supplies(stk, n, seed, first) ==
    [stock |->
        [c \in CityIds |->
            [g \in DOMAIN stk[c] \cup DOMAIN base_stock_levels[c] |->
                IF g \in DOMAIN base_stock_levels[c]
                THEN restock(c, g, Get(stk[c], g, 0),
                             Rand(seed, first + PairIndex(c, g)))
                ELSE stk[c][g]]],
     supply_refreshes |-> n + 1]

\* check_supply_refresh refreshing only after more than 14 days.
check_supply_refresh_after_14(d, lsrd, stk, n, seed) ==
    IF d - lsrd > 14
    THEN [ret |-> TRUE, last_supply_refresh_day |-> d,
          stock |-> refresh_city_supplies(stk, n, seed, 0).stock,
          supply_refreshes |-> n + 1]
    ELSE [ret |-> FALSE, last_supply_refresh_day |-> lsrd,
          stock |-> stk, supply_refreshes |-> n]

\* check_supply_refresh leaving last_supply_refresh_day as it was.
check_supply_refresh_unmarked(d, lsrd, stk, n, seed) ==
    IF d - lsrd >= 14
    THEN [ret |-> TRUE, last_supply_refresh_day |-> lsrd,
          stock |-> refresh_city_supplies(stk, n, seed, 0).stock,
          supply_refreshes |-> n + 1]
    ELSE [ret |-> FALSE, last_supply_refresh_day |-> lsrd,
          stock |-> stk, supply_refreshes |-> n]

\* GameState.check_supply_refresh on day d
check_supply_refresh(d, lsrd, stk, n, seed) ==
    LET days_since_refresh == d - lsrd
    IN  IF days_since_refresh >= 14
        THEN LET r == refresh_city_supplies(stk, n, seed, 0)
             IN  [ret |-> TRUE, last_supply_refresh_day |-> d,
                  stock |-> r.stock, supply_refreshes |-> r.supply_refreshes]
        ELSE [ret |-> FALSE, last_supply_refresh_day |-> lsrd,
              stock |-> stk, supply_refreshes |-> n]

\* ------------------------------------------------------------------- inputs

\* Quantities typed at a prompt that offers at most max: below the range, its two
\* ends, and above it.
Quantities(max) == {0, 1, max, max + 1}

\* Route.travel_time: random.randint(min_days, max_days), drawn at its two ends
TravelTimes(route) == {route.min_days, route.max_days}

\* _handle_travel_event: the four events; "none" when random.random() >= base_risk
Events == {"pirates", "storm", "winds", "trader"}

\* -------------------------------------------------------------------- Init

\* GameState.__init__: self.stats
InitStats ==
    [total_trades |-> 0,
     goods_bought |-> EmptyDict,
     goods_sold |-> EmptyDict,
     total_spent |-> Surreal(0, 0, 0),
     total_earned |-> Surreal(0, 0, 0),
     cities_visited |-> {"carthage"},
     routes_traveled |-> 0,
     events_encountered |-> 0,
     supply_refreshes |-> 0]

\* NegotiationCut.__init__
InitCut ==
    /\ L = <<>>
    /\ R = <<>>

\* No comparison made yet: both operands SurrealNumber()
InitCmp ==
    /\ lhs = SurrealNumber(0, 0, 0)
    /\ rhs = SurrealNumber(0, 0, 0)

\* GameState.__init__
Init ==
    /\ current_city = "carthage"
    /\ day = 1
    /\ money = Surreal(1240, -1, 0)
    /\ cargo = EmptyDict
    /\ charters = <<>>
    /\ reputation = 5
    /\ game_completed = FALSE
    /\ owns_house = FALSE
    /\ last_supply_refresh_day = 1
    /\ stats = InitStats
    /\ stock = base_stock_levels
    /\ crew_morale = Dec(1, 1)
    /\ InitCut
    /\ InitCmp

\* ----------------------------------------------------------------- handlers
\* A handler is an operator from the game state and what the player types to the
\* state it leaves and what it reports; its action applies it.

\* The part of the state a trade writes, as a trade that is turned down leaves it.
Untraded(outcome, total) ==
    [money |-> money, cargo |-> cargo, stock |-> stock, stats |-> stats,
     total |-> total, outcome |-> outcome]

\* buy_goods: the goods offered for purchase in the current city
available_goods ==
    {g \in DOMAIN stock[current_city] : g \in GoodIds /\ stock[current_city][g] > 0}

\* buy_goods taking any quantity, without comparing it with the stock.
buy_goods_any_quantity(good_id, quantity) ==
    LET total_price == negotiate_price(good_id, current_city, quantity, TRUE)
    IN  IF ~IsNone(total_price) /\ can_afford(Val(total_price))
        THEN [money |-> Sub(money, Val(total_price)),
              cargo |-> Put(cargo, good_id, Get(cargo, good_id, 0) + quantity),
              stock |-> [stock EXCEPT ![current_city] =
                             Put(@, good_id, @[good_id] - quantity)],
              stats |-> [stats EXCEPT
                             !.total_trades = @ + 1,
                             !.goods_bought =
                                 Put(@, good_id, Get(@, good_id, 0) + quantity),
                             !.total_spent = Add(@, Val(total_price))],
              total |-> total_price,
              outcome |-> "purchased"]
        ELSE Untraded("refused", total_price)

\* GameEngine.buy_goods once a good of available_goods and a quantity are typed
buy_goods(good_id, quantity) ==
    LET max_stock == stock[current_city][good_id]
    IN  IF 1 <= quantity /\ quantity <= max_stock
        THEN LET total_price == negotiate_price(good_id, current_city, quantity, TRUE)
             IN  IF ~IsNone(total_price) /\ can_afford(Val(total_price))
                 THEN [money |-> Sub(money, Val(total_price)),
                       cargo |-> Put(cargo, good_id, Get(cargo, good_id, 0) + quantity),
                       stock |-> [stock EXCEPT ![current_city] =
                                      Put(@, good_id, @[good_id] - quantity)],
                       stats |-> [stats EXCEPT
                                      !.total_trades = @ + 1,
                                      !.goods_bought =
                                          Put(@, good_id, Get(@, good_id, 0) + quantity),
                                      !.total_spent = Add(@, Val(total_price))],
                       total |-> total_price,
                       outcome |-> "purchased"]
                 ELSE Untraded("refused", total_price)
        ELSE Untraded("invalid_quantity", None)

\* GameEngine.sell_goods once a good of the cargo and a quantity are typed
sell_goods(good_id, quantity) ==
    LET max_quantity == cargo[good_id]
    IN  IF 1 <= quantity /\ quantity <= max_quantity
        THEN LET total_price == negotiate_price(good_id, current_city, quantity, FALSE)
             IN  IF ~IsNone(total_price)
                 THEN [money |-> Add(money, Val(total_price)),
                       cargo |-> IF cargo[good_id] - quantity = 0
                                 THEN Del(cargo, good_id)
                                 ELSE Put(cargo, good_id, cargo[good_id] - quantity),
                       stock |-> [stock EXCEPT ![current_city] =
                                      Put(@, good_id, Get(@, good_id, 0) + quantity)],
                       stats |-> [stats EXCEPT
                                      !.total_trades = @ + 1,
                                      !.goods_sold =
                                          Put(@, good_id, Get(@, good_id, 0) + quantity),
                                      !.total_earned = Add(@, Val(total_price))],
                       total |-> total_price,
                       outcome |-> "sold"]
                 ELSE Untraded("refused", total_price)
        ELSE Untraded("invalid_quantity", None)

\* GameEngine._handle_travel_event on cash m and morale cm
handle_travel_event(event, m, cm) ==
    IF event = "pirates" THEN [money |-> SubReal(m, 50 * Scale), crew_morale |-> cm]
    ELSE IF event = "storm" THEN [money |-> m, crew_morale |-> MulF(cm, Dec(9, 10))]
    ELSE [money |-> m, crew_morale |-> cm]

\* travel's supply step on arrival day d: check_supply_refresh, and
\* refresh_city_supplies again when it reports a refresh
travel_refresh(d, seed) ==
    LET chk == check_supply_refresh(d, last_supply_refresh_day, stock,
                                    stats.supply_refreshes, seed)
    IN  IF chk.ret
        THEN LET again == refresh_city_supplies(chk.stock, chk.supply_refreshes,
                                                seed, Len(RefreshOrder))
             IN  [chk EXCEPT !.stock = again.stock,
                             !.supply_refreshes = again.supply_refreshes]
        ELSE chk

\* travel: the routes offered in the current city
available_routes == {i \in 1..Len(routes) : routes[i].from_city = current_city}

\* GameEngine.travel once route i is typed, for the draws travel_time, seed and event
travel(i, travel_time, seed, event) ==
    LET r  == travel_refresh(day + travel_time, seed)
        ev == IF event = "none"
              THEN [money |-> money, crew_morale |-> crew_morale]
              ELSE handle_travel_event(event, money, crew_morale)
    IN  [day |-> day + travel_time,
         current_city |-> routes[i].to_city,
         stock |-> r.stock,
         last_supply_refresh_day |-> r.last_supply_refresh_day,
         stats |-> [stats EXCEPT
                        !.cities_visited = @ \cup {routes[i].to_city},
                        !.routes_traveled = @ + 1,
                        !.supply_refreshes = r.supply_refreshes,
                        !.events_encountered = IF event = "none" THEN @ ELSE @ + 1],
         money |-> ev.money,
         crew_morale |-> ev.crew_morale,
         refresh_occurred |-> r.ret]

\* GameEngine.buy_house (GameState.purchase_house)
buy_house ==
    IF current_city = "carthage" /\ ~owns_house /\ can_afford_house
    THEN [money |-> Sub(money, Surreal(10000, 0, 0)),
          owns_house |-> TRUE, game_completed |-> TRUE, ret |-> TRUE]
    ELSE [money |-> money, owns_house |-> owns_house,
          game_completed |-> game_completed, ret |-> FALSE]

\* ------------------------------------------------------------------ actions

\* run_game_loop, action 1
BuyGoods ==
    /\ ~game_completed
    /\ \E good_id \in available_goods :
           \E quantity \in Quantities(stock[current_city][good_id]) :
               \E r \in {buy_goods(good_id, quantity)} :
                   /\ r.outcome = "purchased" => stats.total_trades < MaxTrades
                   /\ money' = r.money
                   /\ cargo' = r.cargo
                   /\ stock' = r.stock
                   /\ stats' = r.stats
    /\ UNCHANGED <<current_city, day, charters, reputation, game_completed, owns_house,
                   last_supply_refresh_day, crew_morale, cutVars, cmpVars>>

\* run_game_loop, action 2
SellGoods ==
    /\ ~game_completed
    /\ \E good_id \in DOMAIN cargo :
           \E quantity \in Quantities(cargo[good_id]) :
               \E r \in {sell_goods(good_id, quantity)} :
                   /\ r.outcome = "sold" => stats.total_trades <= MaxTrades
                   /\ money' = r.money
                   /\ cargo' = r.cargo
                   /\ stock' = r.stock
                   /\ stats' = r.stats
    /\ UNCHANGED <<current_city, day, charters, reputation, game_completed, owns_house,
                   last_supply_refresh_day, crew_morale, cutVars, cmpVars>>

\* run_game_loop, action 3
Travel ==
    /\ ~game_completed
    /\ \E i \in available_routes :
           \E travel_time \in TravelTimes(routes[i]) :
               /\ day + travel_time <= MaxDay
               /\ \E seed \in 0..MaxSeed : \E event \in Events \cup {"none"} :
                      /\ event # "none" => stats.events_encountered < MaxEvents
                      /\ \E r \in {travel(i, travel_time, seed, event)} :
                             /\ day' = r.day
                             /\ current_city' = r.current_city
                             /\ stock' = r.stock
                             /\ last_supply_refresh_day' = r.last_supply_refresh_day
                             /\ stats' = r.stats
                             /\ money' = r.money
                             /\ crew_morale' = r.crew_morale
    /\ UNCHANGED <<cargo, charters, reputation, game_completed, owns_house, cutVars, cmpVars>>

\* run_game_loop, action 8
BuyHouse ==
    /\ ~game_completed
    /\ \E r \in {buy_house} :
           /\ money' = r.money
           /\ owns_house' = r.owns_house
           /\ game_completed' = r.game_completed
    /\ UNCHANGED <<current_city, day, cargo, charters, reputation,
                   last_supply_refresh_day, stats, stock, crew_morale, cutVars, cmpVars>>

\* GameEngine.run_game_loop: one handler per turn
Next == BuyGoods \/ SellGoods \/ Travel \/ BuyHouse

Spec == Init /\ [][Next]_vars

\* ------------------------------------------------- get_price on drawn inputs
\* get_price reads the charters, the reputation, the stock and the cargo.  The
\* game itself never grants a charter and never changes the reputation, so the
\* quotes are also checked from starts that draw both, in each city the first
\* voyage can reach; the trades then vary stock and cargo.

CharterLists ==
    { <<>>,
      << [cities |-> {"gadir"}, goods |-> {"purple_dye"}] >>,
      << [cities |-> {"tyre"}, goods |-> {"cedar"}],
         [cities |-> {"carthage", "gadir"}, goods |-> {"purple_dye", "glass"}] >> }

Reputations == {0, 5, 10}

\* The start of the game, and the arrival of its first voyage to Gadir or to Tyre
\* (no event, no refresh due).
Arrivals ==
    { [city |-> "carthage", day |-> 1, routes |-> 0],
      [city |-> "gadir", day |-> 8, routes |-> 1],
      [city |-> "tyre", day |-> 13, routes |-> 1] }

InitPrice ==
    /\ \E at \in Arrivals :
        /\ current_city = at.city
        /\ day = at.day
        /\ stats = [InitStats EXCEPT !.cities_visited = @ \cup {at.city},
                                     !.routes_traveled = at.routes]
    /\ charters \in CharterLists
    /\ reputation \in Reputations
    /\ money = Surreal(1240, -1, 0)
    /\ cargo = EmptyDict
    /\ game_completed = FALSE
    /\ owns_house = FALSE
    /\ last_supply_refresh_day = 1
    /\ stock = base_stock_levels
    /\ crew_morale = Dec(1, 1)
    /\ InitCut
    /\ InitCmp

NextPrice == BuyGoods \/ SellGoods

SpecPrice == InitPrice /\ [][NextPrice]_vars

\* ------------------------------------------------- the house on drawn cash
\* The start cash of 1240 is far from the house price and the trades needed to
\* earn it are many, so the purchase is also checked from starts that draw the
\* cash at and around the price: the game's own start, the price with a
\* negative, a zero and a positive infinitesimal, cash that a pirate raid of 50
\* drops just below or exactly onto the price, and cash for two houses.
HouseCash ==
    { Surreal(1240, -1, 0),
      Surreal(10000, -1, 0), Surreal(10000, 0, 0), Surreal(10000, 1, 0),
      Surreal(10049, 0, 0), Surreal(10050, -1, 0), Surreal(10050, 0, 0),
      Surreal(20000, 0, 0) }

InitHouse ==
    /\ current_city = "carthage"
    /\ day = 1
    /\ money \in HouseCash
    /\ cargo = EmptyDict
    /\ charters = <<>>
    /\ reputation = 5
    /\ game_completed = FALSE
    /\ owns_house = FALSE
    /\ last_supply_refresh_day = 1
    /\ stats = InitStats
    /\ stock = base_stock_levels
    /\ crew_morale = Dec(1, 1)
    /\ InitCut
    /\ InitCmp

NextHouse == Travel \/ BuyHouse

SpecHouse == InitHouse /\ [][NextHouse]_vars

\* ------------------------------------------------- NegotiationCut on its own

\* Offers filed into a cut: reals that tie and that differ, with and without an
\* infinitesimal and an infinite part.
Offers ==
    { Surreal(a, b, c) : a \in {3, 5}, b \in {-1, 0}, c \in {0, 1} }

\* NegotiationCut.add_offer
AddOffer ==
    /\ \E price \in Offers : \E is_seller \in BOOLEAN :
           IF is_seller
           THEN /\ Len(L) < MaxOffers
                /\ L' = Append(L, price)
                /\ R' = R
           ELSE /\ Len(R) < MaxOffers
                /\ R' = Append(R, price)
                /\ L' = L
    /\ UNCHANGED <<gameVars, cmpVars>>

SpecCut == Init /\ [][AddOffer]_vars

\* --------------------------------------------- SurrealNumber ordering on its own

\* Components in units of 1e-11: equal, closer than the tolerance of __eq__
\* (5e-11 apart), and further apart than it (1.5e-10 and 2e-10).
FineComponents == {0, 5, 20}

FineValues ==
    { SurrealNumber(a, b, c) : a \in FineComponents, b \in FineComponents,
                               c \in FineComponents }

\* One comparison of two SurrealNumbers
Compare ==
    /\ \E x \in FineValues : \E y \in FineValues :
           /\ lhs' = x
           /\ rhs' = y
    /\ UNCHANGED <<gameVars, cutVars>>

SpecOrder == Init /\ [][Compare]_vars

\* ================================================================== claims

\* A trade result r leaves cash, cargo, every city's stock and the statistics as
\* they are.
Untouched(r) ==
    /\ r.money = money
    /\ r.cargo = cargo
    /\ r.stock = stock
    /\ r.stats = stats

\* ---------------------------------------------------------------------- C1
\* C1: a buy or a sell of a good whose quote in the current city is illegal
\* (infinite component > 0) is rejected: negotiate_price returns no price, and
\* cash, cargo, every city's stock and the trade statistics are as before.
C1_IllegalQuoteIsRejected ==
    /\ \A g \in GoodIds : \A is_buying \in BOOLEAN : \A q \in {1, 2} :
           get_price(g, current_city, is_buying).c > 0
               => IsNone(negotiate_price(g, current_city, q, is_buying))
    /\ \A g \in available_goods : \A q \in Quantities(stock[current_city][g]) :
           get_price(g, current_city, TRUE).c > 0
               => /\ Untouched(buy_goods(g, q))
                  /\ buy_goods(g, q).outcome # "purchased"
    /\ \A g \in DOMAIN cargo : \A q \in Quantities(cargo[g]) :
           get_price(g, current_city, FALSE).c > 0
               => /\ Untouched(sell_goods(g, q))
                  /\ sell_goods(g, q).outcome # "sold"

\* The player holds a good whose selling quote here is illegal, and selling all of
\* it is refused.
C1_Witness ==
    \E g \in DOMAIN cargo :
        /\ get_price(g, current_city, FALSE).c > 0
        /\ sell_goods(g, cargo[g]).outcome = "refused"
        /\ IsNone(sell_goods(g, cargo[g]).total)

\* ---------------------------------------------------------------------- C2
\* C2: a buy whose settled total exceeds the cash (cash < total in the price
\* ordering), or a buy or sell whose quantity is below 1 or above the city's stock
\* (buy) or the held cargo of the good (sell), is rejected and leaves cash, cargo,
\* city stock and statistics unchanged.
C2_UnaffordableOrInvalidIsRejected ==
    /\ \A g \in available_goods : \A q \in Quantities(stock[current_city][g]) :
           LET total == negotiate_price(g, current_city, q, TRUE)
           IN  (\/ q < 1
                \/ q > stock[current_city][g]
                \/ (~IsNone(total) /\ Lt(money, Val(total))))
                   => /\ Untouched(buy_goods(g, q))
                      /\ buy_goods(g, q).outcome # "purchased"
    /\ \A g \in DOMAIN cargo : \A q \in Quantities(cargo[g]) :
           (q < 1 \/ q > cargo[g])
               => /\ Untouched(sell_goods(g, q))
                  /\ sell_goods(g, q).outcome # "sold"

\* A good on offer whose whole stock, at a legal quote, costs more than the cash,
\* and the buy of it is refused.
C2_Witness ==
    \E g \in available_goods :
        LET q == stock[current_city][g]
            total == negotiate_price(g, current_city, q, TRUE)
        IN  /\ ~IsNone(total)
            /\ Lt(money, Val(total))
            /\ buy_goods(g, q).outcome = "refused"
            /\ buy_goods(g, q + 1).outcome = "invalid_quantity"

\* ---------------------------------------------------------------------- C3
\* C3: a successful buy of quantity q takes exactly the settled total from the
\* cash, adds q to cargo[good], takes q from the current city's stock of the good
\* and adds 1 to total_trades; a successful sell adds the total to the cash, takes
\* q from cargo[good], adds q to the stock and adds 1 to total_trades; either way
\* cargo[good] + stock[good] of the current city is as before.
C3_TradeAppliesAllEffects ==
    /\ \A g \in available_goods : \A q \in Quantities(stock[current_city][g]) :
           LET r == buy_goods(g, q)
               t == Val(r.total)
           IN  r.outcome = "purchased"
                   => /\ r.money.a = money.a - t.a
                      /\ r.money.b = money.b - t.b
                      /\ r.money.c = money.c - t.c
                      /\ Get(r.cargo, g, 0) = Get(cargo, g, 0) + q
                      /\ Get(r.stock[current_city], g, 0)
                             = Get(stock[current_city], g, 0) - q
                      /\ r.stats.total_trades = stats.total_trades + 1
                      /\ Get(r.cargo, g, 0) + Get(r.stock[current_city], g, 0)
                             = Get(cargo, g, 0) + Get(stock[current_city], g, 0)
    /\ \A g \in DOMAIN cargo : \A q \in Quantities(cargo[g]) :
           LET r == sell_goods(g, q)
               t == Val(r.total)
           IN  r.outcome = "sold"
                   => /\ r.money.a = money.a + t.a
                      /\ r.money.b = money.b + t.b
                      /\ r.money.c = money.c + t.c
                      /\ Get(r.cargo, g, 0) = Get(cargo, g, 0) - q
                      /\ Get(r.stock[current_city], g, 0)
                             = Get(stock[current_city], g, 0) + q
                      /\ r.stats.total_trades = stats.total_trades + 1
                      /\ Get(r.cargo, g, 0) + Get(r.stock[current_city], g, 0)
                             = Get(cargo, g, 0) + Get(stock[current_city], g, 0)

\* After a purchase and a sale, with cargo left of which one more unit sells and a
\* good on offer of which one unit can be bought.
C3_Witness ==
    /\ DOMAIN stats.goods_bought # {}
    /\ DOMAIN stats.goods_sold # {}
    /\ \E g \in DOMAIN cargo : sell_goods(g, 1).outcome = "sold"
    /\ \E g \in available_goods : buy_goods(g, 1).outcome = "purchased"

\* ---------------------------------------------------------------------- C4
\* C4: supply refresh is monotonic: for every city and every good, the stock after
\* refresh_city_supplies is at least the stock before it, for every random draw.
C4_RefreshIsMonotonic ==
    \A seed \in DrawSeeds :
        \A r \in {refresh_city_supplies(stock, stats.supply_refreshes, seed, 0)} :
            \A c \in CityIds : \A g \in GoodIds :
                Get(r.stock[c], g, 0) >= Get(stock[c], g, 0)

\* After a refresh, a city holds more of a good than some draw would restock it to,
\* and a refresh on that draw keeps what it holds.
C4_Witness ==
    /\ stats.supply_refreshes > 0
    /\ \E seed \in DrawSeeds : \E c \in CityIds : \E g \in DOMAIN base_stock_levels[c] :
           /\ new_stock_of(c, g, Rand(seed, PairIndex(c, g))) < stock[c][g]
           /\ refresh_city_supplies(stock, stats.supply_refreshes, seed, 0).stock[c][g]
                  = stock[c][g]

\* ---------------------------------------------------------------------- C5
\* C5: check_supply_refresh executes a refresh if and only if
\* day - last_supply_refresh_day >= 14; when it does, last_supply_refresh_day
\* becomes the current day and it reports True; when it does not, it reports False
\* and city stock, last_supply_refresh_day and the refresh counter are unchanged.
\* Checked for every arrival day of every voyage that can leave the current city.
C5_RefreshIffFourteenDays ==
    \A i \in available_routes : \A t \in routes[i].min_days..routes[i].max_days :
            \A r \in {check_supply_refresh(day + t, last_supply_refresh_day, stock,
                                            stats.supply_refreshes, 0)} :
                IF (day + t) - last_supply_refresh_day >= 14
                THEN /\ r.ret = TRUE
                     /\ r.last_supply_refresh_day = day + t
                     /\ r.supply_refreshes = stats.supply_refreshes + 1
                ELSE /\ r.ret = FALSE
                     /\ r.last_supply_refresh_day = last_supply_refresh_day
                     /\ r.supply_refreshes = stats.supply_refreshes
                     /\ r.stock = stock

\* A state a refresh on arrival has left (the last refresh is today's), from which
\* a check 13 days on reports False and one 14 days on reports True.
C5_Witness ==
    /\ day > 1
    /\ last_supply_refresh_day = day
    /\ stats.supply_refreshes > 0
    /\ ~check_supply_refresh(day + 13, last_supply_refresh_day, stock,
                             stats.supply_refreshes, 0).ret
    /\ check_supply_refresh(day + 14, last_supply_refresh_day, stock,
                            stats.supply_refreshes, 0).ret

\* ---------------------------------------------------------------------- C6
\* C6: each time a travel finds a refresh due (on arrival,
\* day - last_supply_refresh_day >= 14), the refresh is executed exactly once: the
\* supply_refreshes counter increases by exactly 1.
C6_RefreshOncePerTravel ==
    [][(day' > day /\ day' - last_supply_refresh_day >= 14)
           => stats'.supply_refreshes = stats.supply_refreshes + 1]_vars

\* ---------------------------------------------------------------------- C7
\* A charter of the player's names the city and the good.
Chartered(city_id, good_id) ==
    \E i \in 1..Len(charters) :
        city_id \in charters[i].cities /\ good_id \in charters[i].goods

\* C7: for a monopoly good, in a city where no charter applies and that has no
\* modifier for the good or one whose c_mod is above 0, get_price returns an
\* illegal quote for buying and for selling, whatever the stock, the holdings and
\* the reputation.
C7_MonopolyWithoutCharterIsIllegal ==
    \A g \in GoodIds : \A c \in CityIds : \A is_buying \in BOOLEAN :
        ( /\ goods[g].monopoly
          /\ ~Chartered(c, g)
          /\ (g \notin DOMAIN modifiers[c] \/ modifiers[c][g].c_mod > 0) )
            => ~is_legal(get_price(g, c, is_buying))

\* After a trade, the player holds a charter, but none for purple dye in Carthage,
\* which has no modifier for it: both quotes are illegal.
C7_Witness ==
    /\ stats.total_trades > 0
    /\ Len(charters) > 0
    /\ goods["purple_dye"].monopoly
    /\ ~Chartered("carthage", "purple_dye")
    /\ "purple_dye" \notin DOMAIN modifiers["carthage"]
    /\ get_price("purple_dye", "carthage", TRUE).c > 0
    /\ get_price("purple_dye", "carthage", FALSE).c > 0

\* ---------------------------------------------------------------------- C8
\* C8: whenever a charter of the player's covers (city, good), get_price returns a
\* quote whose infinite component is exactly 0 for that pair, buying and selling,
\* whatever the good's monopoly flag and the city modifier's c_mod.
C8_CharterMakesQuoteLegal ==
    \A g \in GoodIds : \A c \in CityIds : \A is_buying \in BOOLEAN :
        Chartered(c, g) => get_price(g, c, is_buying).c = 0

\* In Gadir after a trade, a charter covers purple dye, a monopoly good that the
\* city's modifier embargoes (c_mod above 0), and both quotes have no infinite part.
C8_Witness ==
    /\ current_city = "gadir"
    /\ stats.total_trades > 0
    /\ Chartered("gadir", "purple_dye")
    /\ goods["purple_dye"].monopoly
    /\ modifiers["gadir"]["purple_dye"].c_mod > 0
    /\ get_price("purple_dye", "gadir", TRUE).c = 0
    /\ get_price("purple_dye", "gadir", FALSE).c = 0

\* ---------------------------------------------------------------------- C9
\* The offers negotiate_price opens with on a legal quote leave no gap: the
\* largest seller-side offer is not below the smallest buyer-side offer.
NoGap(base, is_buying) ==
    /\ is_legal(base)
    /\ IF is_buying
       THEN Ge(Mul(base, Dec(105, 100)), Mul(base, Dec(85, 100)))
       ELSE Ge(Mul(base, Dec(115, 100)), Mul(base, Dec(95, 100)))

\* C9: when the opening offers leave no gap (maxL >= minR), negotiate_price does
\* not fail: it returns the base quote multiplied by the quantity on all three
\* components, never none.
C9_NoGapFallsBackToBase ==
    \A g \in GoodIds : \A c \in CityIds : \A is_buying \in BOOLEAN : \A q \in 1..3 :
        \A base \in {get_price(g, c, is_buying)} :
            NoGap(base, is_buying)
                => negotiate_price(g, c, q, is_buying)
                       = Some(SurrealNumber(base.a * q, base.b * q, base.c * q))

\* The player holds a good bought here; its selling quote is legal, its opening
\* offers leave no gap, and selling all of it settles at quote times quantity.
C9_Witness ==
    \E g \in DOMAIN cargo :
        \E base \in {get_price(g, current_city, FALSE)} :
            /\ Get(stats.goods_bought, g, 0) > 0
            /\ cargo[g] > 1
            /\ NoGap(base, FALSE)
            /\ sell_goods(g, cargo[g]).outcome = "sold"
            /\ sell_goods(g, cargo[g]).total
                   = Some(SurrealNumber(base.a * cargo[g], base.b * cargo[g],
                                        base.c * cargo[g]))

\* --------------------------------------------------------------------- C10
\* C10: for non-empty offer lists L and R with max(L) < min(R) in the price
\* ordering, find_simplest_in_gap returns a price whose real component is strictly
\* between max(L).a and min(R).a, whose infinitesimal component is 0 and whose
\* infinite component is the larger of max(L).c and min(R).c.
C10_SimplestIsStrictlyBetween ==
    (Len(L) > 0 /\ Len(R) > 0 /\ Lt(MaxOf(L), MinOf(R)))
        => \A p \in {find_simplest_in_gap(L, R)} :
               /\ ~IsNone(p)
               /\ MaxOf(L).a < Val(p).a
               /\ Val(p).a < MinOf(R).a
               /\ Val(p).b = 0
               /\ Val(p).c = Max(MaxOf(L).c, MinOf(R).c)

\* --------------------------------------------------------------------- C11
\* x is below y in the lexicographic order on (infinite, real, infinitesimal).
LexBelow(x, y) ==
    \/ x.c < y.c
    \/ x.c = y.c /\ x.a < y.a
    \/ x.c = y.c /\ x.a = y.a /\ x.b < y.b

\* C11: the ordering is lexicographic on (infinite, real, infinitesimal) under
\* <, <=, > and >= alike: with different infinite components the larger infinite
\* component is the greater value whatever the other components; with equal
\* infinite components the real component decides, and the infinitesimal only
\* breaks real ties.
C11_OrderingIsLexicographic ==
    LexBelow(lhs, rhs)
        => /\ Lt(lhs, rhs)
           /\ LeFine(lhs, rhs)
           /\ GtFine(rhs, lhs)
           /\ Ge(rhs, lhs)
           /\ ~Lt(rhs, lhs)
           /\ ~LeFine(rhs, lhs)
           /\ ~GtFine(lhs, rhs)
           /\ ~Ge(lhs, rhs)

\* --------------------------------------------------------------------- C12
\* C12: after a refresh, for every (city, good) of the base-stock table, the stock
\* is max(stock before, base + d) with d the draw in 2..8 when the good is a
\* specialty of the city (modifier a_mod < 0), and max(stock before,
\* max(1, base + v)) with v the draw in -2..4 otherwise; base 5, stock 5, specialty
\* and draw 8 give 13; the stock of goods outside the city's base-stock table is
\* unchanged.
C12_RefreshRestocksFromBase ==
    /\ \A seed \in DrawSeeds :
           \A r \in {refresh_city_supplies(stock, stats.supply_refreshes, seed, 0)} :
               \A c \in CityIds :
                   /\ DOMAIN r.stock[c] = DOMAIN stock[c] \cup DOMAIN base_stock_levels[c]
                   /\ \A g \in DOMAIN r.stock[c] \ DOMAIN base_stock_levels[c] :
                          r.stock[c][g] = stock[c][g]
                   /\ \A g \in DOMAIN base_stock_levels[c] :
                          LET before == IF g \in DOMAIN stock[c] THEN stock[c][g] ELSE 0
                              base == base_stock_levels[c][g]
                              k == seed + PairIndex(c, g)
                              d == 2 + (k % 7)
                              v == (k % 7) - 2
                          IN  /\ d \in 2..8
                              /\ v \in (-2)..4
                              /\ r.stock[c][g] =
                                     IF g \in DOMAIN modifiers[c] /\ modifiers[c][g].a_mod < 0
                                     THEN Max(before, base + d)
                                     ELSE Max(before, Max(1, base + v))
    /\ (stock["tyre"]["purple_dye"] = 5 /\ base_stock_levels["tyre"]["purple_dye"] = 5)
           => \E seed \in DrawSeeds :
                  /\ randint(2, 8, Rand(seed, PairIndex("tyre", "purple_dye"))) = 8
                  /\ refresh_city_supplies(stock, stats.supply_refreshes, seed, 0)
                         .stock["tyre"]["purple_dye"] = 13

\* A refresh has run, and some city holds a good outside its base-stock table
\* (sold to it) and a table good above its base level.
C12_Witness ==
    /\ stats.supply_refreshes > 0
    /\ \E c \in CityIds :
           /\ \E g \in DOMAIN stock[c] : g \notin DOMAIN base_stock_levels[c]
           /\ \E g \in DOMAIN base_stock_levels[c] :
                  stock[c][g] > base_stock_levels[c][g]

\* --------------------------------------------------------------------- C13
\* The case of the example: glass, base price (120, 0), no monopoly, in Carthage
\* with modifier (-8, -1, 0), 18 in stock, none held, reputation 5.
GlassExample ==
    /\ goods["glass"] = Good(120, 0, FALSE)
    /\ modifiers["carthage"]["glass"] = CityModifier(-8, -1, 0)
    /\ Get(stock["carthage"], "glass", 0) = 18
    /\ Get(cargo, "glass", 0) = 0
    /\ reputation = 5

\* 112 * (1 + 0.15 + (1/1.8 - 1) * 0.1) in units of 1/Scale, the multiplier
\* computed in millionths.
PlainSpreadQuote ==
    (112 * (1000000 + 150000 + (((1000000 * 10) \div 18) - 1000000) \div 10)) \div 1000

\* C13 (as amended): in the case of the example the buying quote's real component
\* is 112 * (1 + 0.15 + (1/1.8 - 1) * 0.1) * 1.02: glass is a specialty of the
\* city (modifier real delta -8 < 0), so the specialty markup applies. Equality
\* is up to 0.1, the rounding of the fixed-point arithmetic.
C13_GlassQuoteHasSpecialtyMarkup ==
    GlassExample
        => Abs(get_price("glass", "carthage", TRUE).a
               - (PlainSpreadQuote * 102) \div 100) <= 100

\* C13: in the case of the example the buying quote's real component equals
\* 112 * (1 + 0.15 + (1/1.8 - 1) * 0.1).
C13_GlassQuoteIsPlainSpread ==
    GlassExample
        => Abs(get_price("glass", "carthage", TRUE).a - PlainSpreadQuote) <= 100

\* In Carthage after a trade in another good, the example's case holds and one
\* glass is bought at the quote with the markup.
C13_Witness ==
    /\ current_city = "carthage"
    /\ stats.total_trades > 0
    /\ GlassExample
    /\ buy_goods("glass", 1).outcome = "purchased"
    /\ Abs(Val(buy_goods("glass", 1).total).a - (PlainSpreadQuote * 102) \div 100) <= 100

\* --------------------------------------------------------------------- C14
\* C14: in every reachable state, after any sequence of buys, sells, travels and
\* refreshes, every city's stock of every good is an integer >= 0.
C14_StockIsNeverNegative ==
    \A c \in CityIds : \A g \in DOMAIN stock[c] : stock[c][g] \in Nat

\* A purchase has taken the whole stock of a good: the city holds 0 of it.
C14_Witness ==
    /\ stats.total_trades > 0
    /\ \E g \in DOMAIN stats.goods_bought \cap DOMAIN base_stock_levels[current_city] :
           /\ stock[current_city][g] = 0
           /\ stats.goods_bought[g] = base_stock_levels[current_city][g]

\* --------------------------------------------------------------------- C17
\* C17: in every reachable state the total number of units in cargo is at most
\* the ship's cargo_capacity (50): no sequence of buys loads more than the ship
\* holds. Stated of the cargo as it is and as every purchase open to the player
\* leaves it.
C17_CargoWithinCapacity ==
    /\ SumValues(cargo) <= cargo_capacity
    /\ \A g \in available_goods : \A q \in Quantities(stock[current_city][g]) :
           SumValues(buy_goods(g, q).cargo) <= cargo_capacity

\* --------------------------------------------------------------------- C15
\* C15: reputation moves only the infinitesimal axis of a quote: two get_price
\* calls that differ only in the merchant_guild score return the same real and
\* infinite components (so the same legality) and infinitesimal components that
\* differ by exactly -0.15 times the difference of the scores, buying and selling.
C15_ReputationMovesOnlyInfinitesimal ==
    \A g \in GoodIds : \A c \in CityIds : \A is_buying \in BOOLEAN :
        \A other \in Reputations :
            \A p \in {get_price(g, c, is_buying)} :
                \A q \in {get_price_with(g, c, is_buying, other)} :
                    /\ p.a = q.a
                    /\ p.c = q.c
                    /\ is_legal(p) = is_legal(q)
                    /\ (p.b - q.b) * 100 = -15 * Scale * (reputation - other)

\* After a trade, with a reputation other than the starting 5: the selling quote
\* of a held good differs from the quote at reputation 5 on the infinitesimal axis.
C15_Witness ==
    /\ reputation # 5
    /\ \E g \in DOMAIN cargo :
           /\ get_price(g, current_city, FALSE).b
                  # get_price_with(g, current_city, FALSE, 5).b
           /\ get_price(g, current_city, FALSE).a
                  = get_price_with(g, current_city, FALSE, 5).a

\* --------------------------------------------------------------------- C16
\* Quotes of the game in the current state, and quotes given to the resolver
\* directly: small and large reals, each sign of the infinitesimal.
QuotesToResolve ==
    {get_price(g, c, is_buying) : g \in GoodIds, c \in CityIds, is_buying \in BOOLEAN}
        \cup {Surreal(a, b, 0) : a \in {1, 220}, b \in {-3, 0, 2}}

\* C16: for every legal quote with infinite component 0 and positive real
\* component, buying and selling, the two opening offers of negotiate_price leave
\* no gap (maxL >= minR), so find_simplest_in_gap returns none (its midpoint branch
\* is not reached) and the settled total is exactly quote * quantity.
C16_OpeningOffersNeverLeaveGap ==
    \A base \in QuotesToResolve : \A is_buying \in BOOLEAN : \A q \in 1..3 :
        (is_legal(base) /\ base.c = 0 /\ base.a > 0)
            => \A cut \in {opening_offers(base, is_buying)} :
                   /\ Len(cut[1]) = 1 /\ Len(cut[2]) = 1
                   /\ Ge(MaxOf(cut[1]), MinOf(cut[2]))
                   /\ IsNone(find_simplest_in_gap(cut[1], cut[2]))
                   /\ resolve(base, q, is_buying)
                          = Some(SurrealNumber(base.a * q, base.b * q, base.c * q))

\* After a purchase, a good on offer here has a legal quote with positive real
\* part, its offers leave no gap, and what was spent is a whole number of quotes.
C16_Witness ==
    /\ stats.total_trades > 0
    /\ stats.total_spent.a > 0
    /\ \E g \in available_goods :
           \E base \in {get_price(g, current_city, TRUE)} :
               /\ base.c = 0 /\ base.a > 0
               /\ IsNone(find_simplest_in_gap(opening_offers(base, TRUE)[1],
                                              opening_offers(base, TRUE)[2]))
               /\ negotiate_price(g, current_city, 2, TRUE)
                      = Some(SurrealNumber(base.a * 2, base.b * 2, 0))

\* --------------------------------------------------------------------- C18
\* C18: in every reachable state the real component of the player's cash is >= 0:
\* no sequence of buys, sells, travels (with their random events) and the house
\* purchase drives it below zero.
C18_CashNeverNegative == money.a >= 0

\* --------------------------------------------------------------------- C19
\* C19: at every action boundary 0 <= day - last_supply_refresh_day <= 13: the
\* day never decreases, last_supply_refresh_day never exceeds the day, and a
\* refresh that became due during a travel has been executed when the travel
\* completes. Stated of the state as it is and as every voyage from it leaves it.
C19_RefreshNeverOverdue ==
    /\ 0 <= day - last_supply_refresh_day
    /\ day - last_supply_refresh_day <= 13
    /\ \A i \in available_routes : \A t \in TravelTimes(routes[i]) :
           \A r \in {travel(i, t, 0, "none")} :
               /\ r.day >= day
               /\ 0 <= r.day - r.last_supply_refresh_day
               /\ r.day - r.last_supply_refresh_day <= 13
               /\ r.day - last_supply_refresh_day >= 14
                      => r.last_supply_refresh_day = r.day /\ r.refresh_occurred

\* A second voyage found the refresh due and ran it: the refresh is today's.
C19_Witness ==
    /\ stats.routes_traveled >= 2
    /\ stats.supply_refreshes > 0
    /\ day >= 15
    /\ last_supply_refresh_day = day

\* --------------------------------------------------------------------- C20
\* What buy_house does to the cash, the house and the end of the game.
C20_PurchaseAtThisState ==
    \A r \in {buy_house} :
        /\ r.ret <=> /\ current_city = "carthage"
                     /\ ~owns_house
                     /\ ~LexBelow(money, Surreal(10000, 0, 0))
        /\ r.ret => /\ r.money = [a |-> money.a - 10000 * Scale,
                                   b |-> money.b, c |-> money.c]
                    /\ r.owns_house
                    /\ r.game_completed
        /\ ~r.ret => /\ r.money = money
                     /\ r.owns_house = owns_house
                     /\ r.game_completed = game_completed
        /\ (money.c = 0 /\ money.a = 10000 * Scale /\ money.b < 0) => ~r.ret

\* C20: the house is bought at most once and only in Carthage while the cash
\* is at least (10000, 0, 0) in the lexicographic order, so that a real
\* component of 10000 with a negative infinitesimal is not enough; the purchase
\* takes exactly 10000 off the real component of the cash and sets owns_house
\* and game_completed together; game_completed equals owns_house in every
\* reachable state, and neither is ever reset.
C20_HouseOnceInCarthage ==
    /\ [](C20_PurchaseAtThisState /\ game_completed = owns_house)
    /\ [][/\ owns_house => owns_house' /\ money' = money
          /\ game_completed => game_completed'
          /\ owns_house' /\ ~owns_house =>
                 /\ current_city = "carthage"
                 /\ game_completed'
                 /\ money'.a = money.a - 10000 * Scale]_vars

\* The house has been bought after a voyage out and back, from cash that the
\* purchase leaves below the price.
C20_Witness ==
    /\ owns_house
    /\ game_completed
    /\ current_city = "carthage"
    /\ stats.routes_traveled >= 2
    /\ money.a < 10000 * Scale

\* --------------------------------------------------------------------- C21
\* The cash the game starts with, which every start of the quoting checks keeps.
C21_StartCash == Surreal(1240, -1, 0)

\* C21: no round trip in one city is profitable: for every good, at the stock
\* and the cargo of every reachable state, the buying quote's real component is
\* strictly above the selling quote's (the buying quote at least 1.10 times the
\* modified base price, the selling quote between 0.7 and 0.875 times it), so
\* that buying and selling back in the same city, with no voyage and no refresh
\* in between, never raises the real component of the cash.
C21_NoProfitableRoundTrip ==
    /\ \A good_id \in GoodIds :
           LET p    == base_price_of(good_id, current_city)
               buy  == get_price(good_id, current_city, TRUE)
               sell == get_price(good_id, current_city, FALSE)
           IN  /\ p.a > 0
               /\ buy.a > sell.a
               /\ buy.a >= MulF(p.a, Dec(110, 100))
               /\ sell.a >= MulF(p.a, Dec(7, 10))
               /\ sell.a <= MulF(p.a, Dec(875, 1000))
    /\ money.a <= C21_StartCash.a
    /\ stats.total_earned.a <= stats.total_spent.a
    /\ money.a = C21_StartCash.a - stats.total_spent.a + stats.total_earned.a
    /\ stats.goods_sold # EmptyDict => stats.total_earned.a < stats.total_spent.a

\* A whole purchase has been sold back where it was bought.
C21_Witness ==
    /\ cargo = EmptyDict
    /\ stats.goods_sold # EmptyDict
    /\ stats.goods_sold = stats.goods_bought
    /\ stats.total_trades >= 2
    /\ money.a < C21_StartCash.a

====
